---- MODULE Spec2Model ----
(***************************************************************************)
(* Model of src/scraper.py: the Hacker News digest pipeline.               *)
(*                                                                         *)
(*   main():  Scraper()  -> scrape_article_data -> store_articles_in_      *)
(*            database -> sort_articles_by_score -> write_articles_to_file *)
(*            -> send_articles_in_email                                     *)
(*                                                                         *)
(* A run is one execution of main().  The database collection, the file    *)
(* email.txt and the recipient's mailbox are shared by all runs.           *)
(*                                                                         *)
(* Texts that the code scans character by character (the score texts) are  *)
(* sequences of one-character strings; texts that the code only copies or  *)
(* formats (titles, links, the file) are strings.                          *)
(***************************************************************************)
EXTENDS Integers, Sequences, FiniteSets, TLC

VARIABLES
    pc,              \* pc[r]: position of run r in main()
    error,           \* error[r]: the exception that ended run r, or "none"
    failedAt,        \* failedAt[r]: the position at which run r failed
    page,            \* page[r]: the response the site gives run r's GET
    soup,            \* soup[r]: self.soup, the parsed page
    articles,        \* articles[r]: the list built by scrape_article_data
    temp_num,        \* temp_num[r]: the digit buffer of the scan loop
    index,           \* index[r]: the pairing index of the scan loop
    si,              \* si[r]: number of score elements the loop has consumed
    origin,          \* origin[r][k]: score element that emitted record k (history)
    ins,             \* ins[r]: number of insert_one calls made by the store loop
    sorted_articles, \* sorted_articles[r]: the value lists returned by the ranker
    collection,      \* db.articles, in natural (insertion) order
    file,            \* content of email.txt, or NoFile
    mailbox,         \* message bodies handed to sendmail
    prior,           \* collection content before any run (history)
    storeOrder,      \* runs in the order they entered Store (history)
    overlapped       \* some run entered Store while another was inside it (history)

vars == <<pc, error, failedAt, page, soup, articles, temp_num, index, si,
          origin, ins, sorted_articles, collection, file, mailbox, prior,
          storeOrder, overlapped>>

runVars  == <<page, soup, articles, temp_num, index, si, origin, ins, sorted_articles>>
scanVars == <<articles, temp_num, index, si, origin>>
shared   == <<collection, file, mailbox>>
history  == <<prior, storeOrder, overlapped>>

----------------------------------------------------------------------------
(* Bounds of the model. *)

MaxScoreChars    == 5   \* characters in all score texts of a page (extract specification)
MaxExtractLinks  == 2   \* story links per page     (extract specification)
MaxExtractScores == 2   \* score elements per page  (extract specification)
MaxPipe          == 5   \* links / score elements per page (pipeline specification)
MaxConc          == 2   \* records per run (two-run specification)
MaxPrior         == 1   \* documents left in the collection by an earlier run

Runs == {1, 2}

NoPage == [links |-> <<>>, scores |-> <<>>]
NoFile == "<absent>"

Min(a, b) == IF a < b THEN a ELSE b

----------------------------------------------------------------------------
(* Characters and score texts. *)

Digits    == {"0", "1", "2", "3", "4", "5", "6", "7", "8", "9"}
Chars     == {"1", "2", "p"}

IsDigit(c) == c \in Digits

DigitVal(c) ==
    CASE c = "0" -> 0 [] c = "1" -> 1 [] c = "2" -> 2 [] c = "3" -> 3
      [] c = "4" -> 4 [] c = "5" -> 5 [] c = "6" -> 6 [] c = "7" -> 7
      [] c = "8" -> 8 [] c = "9" -> 9

\* int(temp_num) on a non-empty digit string; int("") raises ValueError and is
\* handled by the caller.
RECURSIVE ParseInt(_)
ParseInt(num) ==
    IF num = <<>> THEN 0
    ELSE 10 * ParseInt(SubSeq(num, 1, Len(num) - 1)) + DigitVal(num[Len(num)])

SeqsUpTo(S, n) == UNION {[1..k -> S] : k \in 0..n}

\* The i-th story link of a page: <a class="storylink" href=...>title</a>.
StoryLink(i) == [title |-> "T" \o ToString(i), href |-> "/item" \o ToString(i)]
StoryLinks(n) == [i \in 1..n |-> StoryLink(i)]

\* The lists of k score texts over Chars with at most budget characters in all.
RECURSIVE TextLists(_, _)
TextLists(k, budget) ==
    IF k = 0 THEN {<<>>}
    ELSE UNION {{<<t>> \o rest : rest \in TextLists(k - 1, budget - Len(t))} :
                    t \in SeqsUpTo(Chars, budget)}

ExtractPages ==
    {[links |-> StoryLinks(n), scores |-> s] :
        n \in 0..MaxExtractLinks,
        s \in UNION {TextLists(k, MaxScoreChars) : k \in 0..MaxExtractScores}}

PipeTexts == {<<"1", "p">>, <<"2", "p">>, <<"p">>}
PipePages ==
    {[links |-> StoryLinks(n), scores |-> s] :
        n \in 0..MaxPipe, s \in SeqsUpTo(PipeTexts, MaxPipe)}

\* The pages of run r in the two-run specification: well-formed pages of up
\* to MaxConc stories whose scores (10 r + i) differ from each other and from
\* the other run's, one page with a score element and no story link, and one
\* page whose score text starts with a non-digit.
ConcPages(r) ==
    {[links |-> StoryLinks(n), scores |-> [i \in 1..n |-> <<ToString(r), ToString(i), "p">>]] :
        n \in 0..MaxConc}
    \cup {[links |-> StoryLinks(0), scores |-> << <<ToString(r), "p">> >>],
          [links |-> StoryLinks(1), scores |-> << <<"p">> >>]}

----------------------------------------------------------------------------
(* Scraper.scrape_article_data: the scan of one score element. *)

\* The inner for-loop (lines 40-51) over the characters of one score text,
\* from character i on, with digit buffer num.  emit tells whether the loop
\* reached the else branch (a non-digit character).
RECURSIVE Scan(_, _, _)
Scan(text, i, num) ==
    IF i > Len(text) THEN [emit |-> FALSE, num |-> num]
    ELSE IF IsDigit(text[i]) THEN Scan(text, i + 1, Append(num, text[i]))
    ELSE [emit |-> TRUE, num |-> num]

\* One iteration of the outer loop (lines 38-51): the local state after the
\* score element with this text, or the exception the iteration raises.
\* titles[index] is evaluated first, then links[index], then int(temp_num).
\* Two faulty variants come first: one without the buffer reset of line 49,
\* one that advances the index on every score element.
LoopBodyNoReset(arts, num, idx, text, links) ==
    LET s == Scan(text, 1, num) IN
    IF ~s.emit THEN [err |-> "none", emitted |-> FALSE, articles |-> arts, temp_num |-> s.num, index |-> idx]
    ELSE IF idx + 1 > Len(links)
        THEN [err |-> "IndexError", emitted |-> FALSE, articles |-> arts, temp_num |-> s.num, index |-> idx]
    ELSE IF s.num = <<>>
        THEN [err |-> "ValueError", emitted |-> FALSE, articles |-> arts, temp_num |-> s.num, index |-> idx]
    ELSE [err |-> "none", emitted |-> TRUE,
          articles |-> Append(arts, [title |-> links[idx + 1].title,
                                     link  |-> links[idx + 1].href,
                                     score |-> ParseInt(s.num)]),
          temp_num |-> s.num, index |-> idx + 1]

LoopBodyAlwaysAdvance(arts, num, idx, text, links) ==
    LET s == Scan(text, 1, num) IN
    IF ~s.emit THEN [err |-> "none", emitted |-> FALSE, articles |-> arts, temp_num |-> s.num, index |-> idx + 1]
    ELSE IF idx + 1 > Len(links)
        THEN [err |-> "IndexError", emitted |-> FALSE, articles |-> arts, temp_num |-> s.num, index |-> idx]
    ELSE IF s.num = <<>>
        THEN [err |-> "ValueError", emitted |-> FALSE, articles |-> arts, temp_num |-> s.num, index |-> idx]
    ELSE [err |-> "none", emitted |-> TRUE,
          articles |-> Append(arts, [title |-> links[idx + 1].title,
                                     link  |-> links[idx + 1].href,
                                     score |-> ParseInt(s.num)]),
          temp_num |-> <<>>, index |-> idx + 1]

LoopBody(arts, num, idx, text, links) ==
    LET s == Scan(text, 1, num) IN
    IF ~s.emit THEN [err |-> "none", emitted |-> FALSE, articles |-> arts, temp_num |-> s.num, index |-> idx]
    ELSE IF idx + 1 > Len(links)
        THEN [err |-> "IndexError", emitted |-> FALSE, articles |-> arts, temp_num |-> s.num, index |-> idx]
    ELSE IF s.num = <<>>
        THEN [err |-> "ValueError", emitted |-> FALSE, articles |-> arts, temp_num |-> s.num, index |-> idx]
    ELSE [err |-> "none", emitted |-> TRUE,
          articles |-> Append(arts, [title |-> links[idx + 1].title,
                                     link  |-> links[idx + 1].href,
                                     score |-> ParseInt(s.num)]),
          temp_num |-> <<>>, index |-> idx + 1]

----------------------------------------------------------------------------
(* The database collection. *)

\* A stored document.  pymongo writes _id first, so list(doc.values()) is
\* [_id, title, link, score].
Doc(id, a) == [_id |-> id, title |-> a.title, link |-> a.link, score |-> a.score]
Values(d)  == <<d._id, d.title, d.link, d.score>>

\* The document of run r's k-th insert_one; ObjectIds are unique.
RunDoc(r, k) == Doc(<<r, k>>, articles[r][k])
RunDocs(r)   == [k \in 1..Len(articles[r]) |-> RunDoc(r, k)]

PriorDoc(k)   == [_id |-> <<0, k>>, title |-> "old" \o ToString(k), link |-> "/old" \o ToString(k), score |-> 2 + k]
PriorContents == {[k \in 1..n |-> PriorDoc(k)] : n \in 0..MaxPrior}

\* collection.count_documents({}) > 0  (line 75)
\* (faulty variant: > 1)
NeedsDeleteOffByOne(coll) == Len(coll) > 1
NeedsDelete(coll) == Len(coll) > 0

\* collection.delete_many({})  (line 76)
\* (faulty variant: delete_one)
DeleteOne(coll) == IF coll = <<>> THEN <<>> ELSE Tail(coll)
DeleteMany(coll) == <<>>

\* collection.find().sort("score", -1): every order of the documents that is
\* descending by score; the order among equal scores is the server's choice.
RECURSIVE Orders(_, _)
Orders(coll, S) ==
    IF S = {} THEN {<<>>}
    ELSE UNION {{<<coll[i]>> \o rest : rest \in Orders(coll, S \ {i})} :
                    i \in {j \in S : \A k \in S : coll[j].score >= coll[k].score}}

\* Faulty variant: sort("score", 1).
RECURSIVE OrdersAscending(_, _)
OrdersAscending(coll, S) ==
    IF S = {} THEN {<<>>}
    ELSE UNION {{<<coll[i]>> \o rest : rest \in OrdersAscending(coll, S \ {i})} :
                    i \in {j \in S : \A k \in S : coll[j].score <= coll[k].score}}

SortedCursorAscending(coll) == OrdersAscending(coll, DOMAIN coll)
SortedCursor(coll) == Orders(coll, DOMAIN coll)

----------------------------------------------------------------------------
(* Scraper.write_articles_to_file. *)

\* The f-string of line 105, on one value list.
Line(article) ==
    "Title: " \o article[2] \o " \nLink: " \o article[3]
        \o " \nPoints: " \o ToString(article[4]) \o " \n\n"

\* The content after the first n writes of the loop of lines 104-105.
RECURSIVE Written(_, _)
Written(arts, n) ==
    IF n = 0 THEN "" ELSE Written(arts, n - 1) \o Line(arts[n])

\* sorted_articles[0:4]  (line 104)
DigestSize == 4
\* (faulty variant: no slice)
TopAll(sorted) == sorted
Top(sorted) == SubSeq(sorted, 1, Min(DigestSize, Len(sorted)))

----------------------------------------------------------------------------
(* Positions of main(). *)

StorePcs == {"store", "store_delete", "store_insert"}

Fail(r, exc) ==
    /\ pc' = [pc EXCEPT ![r] = "failed"]
    /\ error' = [error EXCEPT ![r] = exc]
    /\ failedAt' = [failedAt EXCEPT ![r] = pc[r]]

Goto(r, to) ==
    /\ pc' = [pc EXCEPT ![r] = to]
    /\ UNCHANGED <<error, failedAt>>

----------------------------------------------------------------------------
(* Scraper.__init__ (lines 22-24): the GET and the parse. *)

Fetch(r) ==
    /\ pc[r] = "init"
    /\ soup' = [soup EXCEPT ![r] = page[r]]
    /\ Goto(r, "scrape")
    /\ UNCHANGED <<page, articles, temp_num, index, si, origin, ins, sorted_articles,
                   shared, history>>

\* requests.get raises (no connection, DNS failure, ...).
FetchFail(r) ==
    /\ pc[r] = "init"
    /\ Fail(r, "ConnectionError")
    /\ UNCHANGED <<runVars, shared, history>>

----------------------------------------------------------------------------
(* Scraper.scrape_article_data (lines 33-53). *)

\* Lines 33-37: the two find_all passes and the loop's initial state.
ScrapeBegin(r) ==
    /\ pc[r] = "scrape"
    /\ articles' = [articles EXCEPT ![r] = <<>>]
    /\ temp_num' = [temp_num EXCEPT ![r] = <<>>]
    /\ index' = [index EXCEPT ![r] = 0]
    /\ si' = [si EXCEPT ![r] = 0]
    /\ origin' = [origin EXCEPT ![r] = <<>>]
    /\ Goto(r, "scrape_loop")
    /\ UNCHANGED <<page, soup, ins, sorted_articles, shared, history>>

Body(r) ==
    LoopBody(articles[r], temp_num[r], index[r], soup[r].scores[si[r] + 1], soup[r].links)

\* One iteration of the loop over the score elements that raises nothing.
ScoreStep(r) ==
    /\ pc[r] = "scrape_loop"
    /\ si[r] < Len(soup[r].scores)
    /\ Body(r).err = "none"
    /\ articles' = [articles EXCEPT ![r] = Body(r).articles]
    /\ temp_num' = [temp_num EXCEPT ![r] = Body(r).temp_num]
    /\ index' = [index EXCEPT ![r] = Body(r).index]
    /\ si' = [si EXCEPT ![r] = si[r] + 1]
    /\ origin' = [origin EXCEPT ![r] =
                     IF Body(r).emitted THEN Append(origin[r], si[r] + 1) ELSE origin[r]]
    /\ Goto(r, "scrape_loop")
    /\ UNCHANGED <<page, soup, ins, sorted_articles, shared, history>>

\* titles[index] with index past the last story link (line 45).
ScrapeIndexError(r) ==
    /\ pc[r] = "scrape_loop"
    /\ si[r] < Len(soup[r].scores)
    /\ Body(r).err = "IndexError"
    /\ Fail(r, "IndexError")
    /\ UNCHANGED <<runVars, shared, history>>

\* int("") (line 47).
ScrapeValueError(r) ==
    /\ pc[r] = "scrape_loop"
    /\ si[r] < Len(soup[r].scores)
    /\ Body(r).err = "ValueError"
    /\ Fail(r, "ValueError")
    /\ UNCHANGED <<runVars, shared, history>>

\* Line 53.
ScrapeReturn(r) ==
    /\ pc[r] = "scrape_loop"
    /\ si[r] = Len(soup[r].scores)
    /\ Goto(r, "store")
    /\ UNCHANGED <<runVars, shared, history>>

----------------------------------------------------------------------------
(* Scraper.store_articles_in_database (lines 68-82). *)

\* Lines 68-75: connect and count.
StoreCount(r) ==
    /\ pc[r] = "store"
    /\ Goto(r, IF NeedsDelete(collection) THEN "store_delete" ELSE "store_insert")
    /\ ins' = [ins EXCEPT ![r] = 0]
    /\ storeOrder' = Append(storeOrder, r)
    /\ overlapped' = (overlapped \/ \E o \in Runs \ {r} : pc[o] \in StorePcs \ {"store"})
    /\ UNCHANGED <<page, soup, scanVars, sorted_articles, shared, prior>>

\* Line 76.
StoreDelete(r) ==
    /\ pc[r] = "store_delete"
    /\ collection' = DeleteMany(collection)
    /\ Goto(r, "store_insert")
    /\ UNCHANGED <<runVars, file, mailbox, history>>

\* Lines 79-80: one insert_one.
StoreInsert(r) ==
    /\ pc[r] = "store_insert"
    /\ ins[r] < Len(articles[r])
    /\ collection' = Append(collection, RunDoc(r, ins[r] + 1))
    /\ ins' = [ins EXCEPT ![r] = ins[r] + 1]
    /\ Goto(r, "store_insert")
    /\ UNCHANGED <<page, soup, scanVars, sorted_articles, file, mailbox, history>>

\* Line 82.
StoreReturn(r) ==
    /\ pc[r] = "store_insert"
    /\ ins[r] = Len(articles[r])
    /\ Goto(r, "sort")
    /\ UNCHANGED <<runVars, shared, history>>

\* A connection or write error in any of the database calls; nothing is
\* caught and nothing is rolled back.
\* (faulty variant first: a handler that restores the prior content)
StoreFailRollback(r) ==
    /\ pc[r] \in StorePcs
    /\ Fail(r, "PyMongoError")
    /\ collection' = prior
    /\ UNCHANGED <<runVars, file, mailbox, history>>

StoreFail(r) ==
    /\ pc[r] \in StorePcs
    /\ Fail(r, "PyMongoError")
    /\ UNCHANGED <<runVars, shared, history>>

----------------------------------------------------------------------------
(* Scraper.sort_articles_by_score (line 94). *)

SortArticles(r) ==
    /\ pc[r] = "sort"
    /\ \E o \in SortedCursor(collection) :
          sorted_articles' = [sorted_articles EXCEPT ![r] = [i \in DOMAIN o |-> Values(o[i])]]
    /\ Goto(r, "write")
    /\ UNCHANGED <<page, soup, scanVars, ins, shared, history>>

SortFail(r) ==
    /\ pc[r] = "sort"
    /\ Fail(r, "PyMongoError")
    /\ UNCHANGED <<runVars, shared, history>>

----------------------------------------------------------------------------
(* Scraper.write_articles_to_file (lines 103-105). *)

WriteArticles(r) ==
    /\ pc[r] = "write"
    /\ file' = Written(Top(sorted_articles[r]), Len(Top(sorted_articles[r])))
    /\ Goto(r, "send")
    /\ UNCHANGED <<runVars, collection, mailbox, history>>

\* open() fails and the file is untouched, or a write raises after open()
\* truncated the file and some of the writes were made.
WriteFail(r) ==
    /\ pc[r] = "write"
    /\ Fail(r, "OSError")
    /\ \/ file' = file
       \/ \E k \in 0..(Len(Top(sorted_articles[r])) - 1) :
             file' = Written(Top(sorted_articles[r]), k)
    /\ UNCHANGED <<runVars, collection, mailbox, history>>

----------------------------------------------------------------------------
(* Scraper.send_articles_in_email (lines 115-128). *)

\* message = f.read(); sendmail(sender, receiver, message.encode("utf-8"))
SendEmail(r) ==
    /\ pc[r] = "send"
    /\ mailbox' = Append(mailbox, file)
    /\ Goto(r, "done")
    /\ UNCHANGED <<runVars, collection, file, history>>

\* getpass, the connection, starttls, login or sendmail raises.
SendFail(r) ==
    /\ pc[r] = "send"
    /\ Fail(r, "SMTPException")
    /\ UNCHANGED <<runVars, shared, history>>

----------------------------------------------------------------------------
(* Specifications. *)

InitRun(active) ==
    /\ pc = [r \in Runs |-> IF r \in active THEN "init" ELSE "off"]
    /\ error = [r \in Runs |-> "none"]
    /\ failedAt = [r \in Runs |-> "none"]
    /\ soup = [r \in Runs |-> NoPage]
    /\ articles = [r \in Runs |-> <<>>]
    /\ temp_num = [r \in Runs |-> <<>>]
    /\ index = [r \in Runs |-> 0]
    /\ si = [r \in Runs |-> 0]
    /\ origin = [r \in Runs |-> <<>>]
    /\ ins = [r \in Runs |-> 0]
    /\ sorted_articles = [r \in Runs |-> <<>>]
    /\ mailbox = <<>>
    /\ storeOrder = <<>>
    /\ overlapped = FALSE

\* One run of main() on any page of PipePages.
Init ==
    /\ InitRun({1})
    /\ page \in {[r \in Runs |-> IF r = 1 THEN p ELSE NoPage] : p \in PipePages}
    /\ collection \in PriorContents
    /\ prior = collection
    /\ file \in {NoFile, "stale"}

Extract(r) ==
    \/ Fetch(r)
    \/ ScrapeBegin(r)
    \/ ScoreStep(r)
    \/ ScrapeIndexError(r)
    \/ ScrapeValueError(r)
    \/ ScrapeReturn(r)

Next ==
    \E r \in Runs :
        \/ Fetch(r)
        \/ FetchFail(r)
        \/ ScrapeBegin(r)
        \/ ScoreStep(r)
        \/ ScrapeIndexError(r)
        \/ ScrapeValueError(r)
        \/ ScrapeReturn(r)
        \/ StoreCount(r)
        \/ StoreDelete(r)
        \/ StoreInsert(r)
        \/ StoreReturn(r)
        \/ StoreFail(r)
        \/ SortArticles(r)
        \/ SortFail(r)
        \/ WriteArticles(r)
        \/ WriteFail(r)
        \/ SendEmail(r)
        \/ SendFail(r)

Spec == Init /\ [][Next]_vars

\* The constructor and scrape_article_data alone, on any page of ExtractPages.
InitExtract ==
    /\ InitRun({1})
    /\ page \in {[r \in Runs |-> IF r = 1 THEN p ELSE NoPage] : p \in ExtractPages}
    /\ collection = <<>>
    /\ prior = collection
    /\ file = NoFile

NextExtract == \E r \in Runs : Extract(r)

SpecExtract == InitExtract /\ [][NextExtract]_vars

\* Two runs of main() at the same time, each on a well-formed page.
InitConc ==
    /\ InitRun(Runs)
    /\ page \in {[r \in Runs |-> IF r = 1 THEN p1 ELSE p2] :
                    p1 \in ConcPages(1), p2 \in ConcPages(2)}
    /\ collection \in PriorContents
    /\ prior = collection
    /\ file = NoFile

SpecConc == InitConc /\ [][Next]_vars

----------------------------------------------------------------------------
(* Vocabulary of the properties. *)

Range(f) == {f[i] : i \in DOMAIN f}

\* Position of the first non-digit character of a text, Len(text) + 1 if none.
FirstNonDigit(text) ==
    IF \E i \in DOMAIN text : ~IsDigit(text[i])
    THEN CHOOSE i \in DOMAIN text :
            /\ ~IsDigit(text[i])
            /\ \A j \in 1..(i - 1) : IsDigit(text[j])
    ELSE Len(text) + 1

Terminated(text) == FirstNonDigit(text) <= Len(text)
OwnDigits(text)  == SubSeq(text, 1, FirstNonDigit(text) - 1)

\* A non-empty run of digits followed by at least one non-digit character.
WellFormedText(text) == Terminated(text) /\ OwnDigits(text) # <<>>
WellFormedTexts(p)   == \A i \in DOMAIN p.scores : WellFormedText(p.scores[i])

\* The integer a digit string denotes, by place value.
RECURSIVE NumberOf(_)
NumberOf(ds) ==
    IF ds = <<>> THEN 0
    ELSE DigitVal(Head(ds)) * 10 ^ (Len(ds) - 1) + NumberOf(Tail(ds))

Launched(r)  == pc[r] # "off"
InExtract(r) == pc[r] \in {"scrape_loop", "store"} \/ failedAt[r] = "scrape_loop"
ExtractErrors == {"IndexError", "ValueError"}

\* Run r's call of the given stage has returned.
Returned(r, after) == pc[r] \in after \/ (pc[r] = "failed" /\ failedAt[r] \in after)

Fields(d)   == [title |-> d.title, link |-> d.link, score |-> d.score]
Triple(v)   == [title |-> v[2], link |-> v[3], score |-> v[4]]
Count(s, x) == Cardinality({i \in DOMAIN s : s[i] = x})

----------------------------------------------------------------------------
(* Properties of scrape_article_data, under SpecExtract. *)

\* C1: on a page with as many story links as score elements, where every
\* score text is a non-empty digit run followed by a non-digit, extract raises
\* nothing and returns one record per position, with the title and link of
\* the i-th story link and the number written in the i-th score text.
C1_WellFormedExtract ==
    \A r \in Runs :
        (/\ Launched(r)
         /\ Len(page[r].links) = Len(page[r].scores)
         /\ WellFormedTexts(page[r]))
        => /\ error[r] = "none"
           /\ pc[r] = "store" =>
                /\ Len(articles[r]) = Len(page[r].scores)
                /\ \A i \in DOMAIN articles[r] :
                     articles[r][i] =
                        [title |-> page[r].links[i].title,
                         link  |-> page[r].links[i].href,
                         score |-> NumberOf(OwnDigits(page[r].scores[i]))]

C1_Witness ==
    /\ pc[1] = "store"
    /\ Len(page[1].links) = Len(page[1].scores)
    /\ WellFormedTexts(page[1])
    /\ Len(articles[1]) >= 2
    /\ articles[1][1].score = 21
    /\ articles[1][2].score = 1

\* C2: the records emitted so far are, in order, those of the score texts
\* scanned so far that have a non-digit terminator, and each record's score
\* is the number formed by the digits of its own text before that terminator
\* (an unterminated text emits nothing and adds nothing to another score).
C2_OwnDigitsOnly ==
    \A r \in Runs :
        InExtract(r) =>
            LET scanned == SubSeq(soup[r].scores, 1, si[r])
                term    == SelectSeq(scanned, Terminated)
            IN  /\ Len(articles[r]) = Len(term)
                /\ \A k \in DOMAIN articles[r] :
                     articles[r][k].score = NumberOf(OwnDigits(term[k]))

\* C3: on a page whose numbers of story links and score elements differ
\* (every score text well-formed), extract raises nothing and emits at most
\* min(#links, #scores) records.
C3_MismatchNoError ==
    \A r \in Runs :
        (/\ Launched(r)
         /\ Len(page[r].links) # Len(page[r].scores)
         /\ WellFormedTexts(page[r]))
        => /\ error[r] \notin ExtractErrors
           /\ Len(articles[r]) <= Min(Len(page[r].links), Len(page[r].scores))

\* C4: extract never fails on a score text without a parseable number: the
\* element is skipped and no error is raised.
C4_NoValueError ==
    \A r \in Runs : error[r] # "ValueError"

\* C10: in every state of the loop the pairing index is the number of
\* records emitted, the k-th record has the k-th story link's title and link,
\* and a record whose score element comes after an element that emitted
\* nothing is paired with an earlier position than its score element.
C10_IndexIsRecordCount ==
    \A r \in Runs :
        InExtract(r) =>
            /\ index[r] = Len(articles[r])
            /\ Len(origin[r]) = Len(articles[r])
            /\ \A k \in DOMAIN articles[r] :
                 /\ articles[r][k].title = soup[r].links[k].title
                 /\ articles[r][k].link = soup[r].links[k].href
                 /\ origin[r][k] >= k
                 /\ (\E i \in 1..(origin[r][k] - 1) :
                        i \notin Range(origin[r]) /\ ~Terminated(soup[r].scores[i]))
                    => origin[r][k] > k

C10_Witness ==
    /\ pc[1] = "store"
    /\ \E k \in DOMAIN articles[1] :
         /\ origin[1][k] > k
         /\ articles[1][k].title = soup[1].links[k].title

----------------------------------------------------------------------------
(* Properties of one run of the pipeline, under Spec. *)

\* C5: once the ranker has returned, its result holds exactly the records
\* that were stored (as a multiset), none of the documents that were in the
\* collection before the run, in an order that is descending by score.
C5_StoreThenRank ==
    \A r \in Runs :
        Returned(r, {"write", "send", "done"}) =>
            LET S == sorted_articles[r]
                T == [i \in DOMAIN S |-> Triple(S[i])]
            IN  /\ Len(S) = Len(articles[r])
                /\ \A i \in DOMAIN articles[r] :
                     Count(T, articles[r][i]) = Count(articles[r], articles[r][i])
                /\ \A i \in DOMAIN S : \A j \in DOMAIN prior : S[i][1] # prior[j]._id
                /\ \A i \in 1..(Len(S) - 1) : S[i][4] >= S[i + 1][4]

C5_Witness ==
    /\ pc[1] = "write"
    /\ prior # <<>>
    /\ Len(articles[1]) >= 3
    /\ \E i, j \in DOMAIN articles[1] : i < j /\ articles[1][i].score < articles[1][j].score
    /\ \E i, j \in DOMAIN articles[1] : i < j /\ articles[1][i].score = articles[1][j].score

\* The documented line format, and the format with a space before each
\* line break.
ClaimedLine(t, l, s) == "Title: " \o t \o "\nLink: " \o l \o "\nPoints: " \o ToString(s) \o "\n\n"
SpacedLine(t, l, s) == "Title: " \o t \o " \nLink: " \o l \o " \nPoints: " \o ToString(s) \o " \n\n"

DocById(id) == CHOOSE d \in Range(collection) : d._id = id

RECURSIVE ClaimedDigest(_, _)
ClaimedDigest(S, n) ==
    IF n = 0 THEN ""
    ELSE ClaimedDigest(S, n - 1)
            \o ClaimedLine(DocById(S[n][1]).title, DocById(S[n][1]).link, DocById(S[n][1]).score)

RECURSIVE SpacedDigest(_, _)
SpacedDigest(S, n) ==
    IF n = 0 THEN ""
    ELSE SpacedDigest(S, n - 1)
            \o SpacedLine(DocById(S[n][1]).title, DocById(S[n][1]).link, DocById(S[n][1]).score)

\* C6 as stated: after render the file is the concatenation, for the first
\* min(4, |S|) ranked records, of "Title: <t>\nLink: <l>\nPoints: <s>\n\n".
C6_ClaimedFormat ==
    \A r \in Runs :
        Returned(r, {"send", "done"}) =>
            file = ClaimedDigest(sorted_articles[r], Min(4, Len(sorted_articles[r])))

\* C6 amended: after render the file is the concatenation, for the first
\* min(4, |S|) ranked records in order, of
\* "Title: <t> \nLink: <l> \nPoints: <s> \n\n" with t, l, s the title, link
\* and score of the stored document; the message handed to the mail server is
\* that content read back verbatim; an empty S gives an empty file.
C6_SpacedFormat ==
    \A r \in Runs :
        /\ Returned(r, {"send", "done"}) =>
             file = SpacedDigest(sorted_articles[r], Min(4, Len(sorted_articles[r])))
        /\ pc[r] = "done" => mailbox = <<file>>
        /\ (Returned(r, {"send", "done"}) /\ sorted_articles[r] = <<>>) => file = ""

C6_Witness ==
    /\ pc[1] = "done"
    /\ Len(sorted_articles[1]) > 4
    /\ sorted_articles[1][1][4] > sorted_articles[1][5][4]
    /\ mailbox = <<file>>

StageNo(p) ==
    CASE p = "init" -> 1
      [] p \in {"scrape", "scrape_loop"} -> 2
      [] p \in StorePcs -> 3
      [] p = "sort" -> 4
      [] p = "write" -> 5
      [] p = "send" -> 6
      [] p = "done" -> 7

\* C7: a run moves through Fetch, Extract, Store, Rank, Render, Send in that
\* order, one stage at a time; only Store changes the collection, only Render
\* the file and only Send the mailbox; a failed or finished run takes no
\* further step; and the step on which a stage fails leaves the collection
\* as it was, and leaves the file as it was unless Render itself failed.
C7_StageStep(r) ==
    /\ pc[r] \in {"failed", "done", "off"} => pc'[r] = pc[r]
    /\ (pc'[r] # pc[r] /\ pc'[r] # "failed") => StageNo(pc'[r]) \in {StageNo(pc[r]), StageNo(pc[r]) + 1}
    /\ (pc'[r] = "failed" /\ pc[r] # "failed") =>
          /\ collection' = collection
          /\ mailbox' = mailbox
          /\ pc[r] # "write" => file' = file
    /\ collection' # collection => pc[r] \in StorePcs
    /\ file' # file => pc[r] = "write"
    /\ mailbox' # mailbox => pc[r] = "send"

C7_LinearPipeline == [][C7_StageStep(1)]_vars

C7_Witness ==
    /\ pc[1] = "failed"
    /\ failedAt[1] = "send"
    /\ collection = RunDocs(1)
    /\ collection # prior
    /\ Len(collection) >= 2
    /\ file \notin {NoFile, "stale", ""}
    /\ mailbox = <<>>

\* C9: at every moment of a run the collection is either the prior content
\* or a prefix, in insertion order, of the run's records; this also holds
\* after the run has failed, so the content left behind by a failure inside
\* Store is such a state and is not restored.
C9_PriorOrPrefix ==
    \/ collection = prior
    \/ \E k \in 0..Len(articles[1]) :
          [i \in DOMAIN collection |-> Fields(collection[i])] = SubSeq(articles[1], 1, k)

C9_Witness ==
    /\ pc[1] = "failed"
    /\ failedAt[1] = "store_insert"
    /\ prior # <<>>
    /\ collection # prior
    /\ collection # <<>>
    /\ Len(collection) < Len(articles[1])

----------------------------------------------------------------------------
(* Property of two simultaneous runs, under SpecConc. *)

StoreDone(r) == Returned(r, {"sort", "write", "send", "done"})

\* C8: when both runs have completed Store, the collection holds documents
\* of these two runs only, and if neither run entered Store while the other
\* was inside it, the collection is exactly the record set of the run that
\* stored last.  When the Store steps interleave this fails: the witness is a
\* state with both runs finished in which the collection equals neither
\* run's record set.
C8_LastRunOnlyIfNoOverlap ==
    (StoreDone(1) /\ StoreDone(2)) =>
        /\ \A i \in DOMAIN collection : \E r \in Runs : collection[i] \in Range(RunDocs(r))
        /\ ~overlapped => collection = RunDocs(storeOrder[Len(storeOrder)])

C8_Witness ==
    /\ pc[1] = "done"
    /\ pc[2] = "done"
    /\ overlapped
    /\ collection # RunDocs(1)
    /\ collection # RunDocs(2)
    /\ \E i, j \in DOMAIN collection : collection[i]._id[1] = 1 /\ collection[j]._id[1] = 2
====
